---------------------------- MODULE Spec2Model ----------------------------
(***************************************************************************)
(* A model of the multi-map crate (src/src/lib.rs): a MultiMap<K1, K2, V>  *)
(* made of two hash maps, value_map : K1 -> (K2, V) and key_map : K2 -> K1.*)
(* A hash map is a function whose domain is the set of keys present; an    *)
(* Option is the empty sequence (None) or a one-element sequence (Some).   *)
(* A pair (K2, V) is the tuple <<k2, v>>: pair.0 is pair[1], pair.1 is     *)
(* pair[2].                                                                *)
(***************************************************************************)
EXTENDS Integers, Sequences, FiniteSets, TLC

\* Bounds of the model: how many distinct K1, K2 and V values callers use.
\* K1 is 1, 2, ..; K2 is 11, 12, ..; V is 21, 22, .. (so that a trace reads).
NumK1 == 2
NumK2 == 2
NumV == 2
MaxLiteral == 3

K1 == 1 .. NumK1
K2 == 11 .. (10 + NumK2)
V == 21 .. (20 + NumV)

VARIABLES
    map,    \* the MultiMap the calls are made on: [value_map, key_map]
    other_map,  \* a second MultiMap, for what relates two maps (==, From)
    last,   \* the last call made: its name and whether it returned Some(_)
    inserts_only,   \* TRUE while every call made on map so far was an insert
    literal     \* the triples written so far in a multimap!{...} literal

vars == <<map, other_map, last, inserts_only, literal>>

None == <<>>
Some(x) == <<x>>

\* ---- std::collections::HashMap, as the code uses it ----
HashMapNew == <<>>
HashMapInsert(m, k, x) == [y \in (DOMAIN m) \cup {k} |-> IF y = k THEN x ELSE m[y]]
HashMapGet(m, k) == IF k \in DOMAIN m THEN Some(m[k]) ELSE None
HashMapRemove(m, k) == [y \in (DOMAIN m) \ {k} |-> m[y]]
HashMapContainsKey(m, k) == k \in DOMAIN m

\* ---- MultiMap ----
new == [value_map |-> HashMapNew, key_map |-> HashMapNew]

with_capacity(capacity) == [value_map |-> HashMapNew, key_map |-> HashMapNew]

\* insert as it would be if it first dropped the key_map entry of the pair it replaces.
insert_evicting_old_key(self, key_one, key_two, value) ==
    LET old == HashMapGet(self.value_map, key_one)
        kept == IF old # None THEN HashMapRemove(self.key_map, old[1][1]) ELSE self.key_map
    IN  [value_map |-> HashMapInsert(self.value_map, key_one, <<key_two, value>>),
         key_map |-> HashMapInsert(kept, key_two, key_one)]

insert(self, key_one, key_two, value) ==
    [value_map |-> HashMapInsert(self.value_map, key_one, <<key_two, value>>),
     key_map |-> HashMapInsert(self.key_map, key_two, key_one)]

get(self, key) ==
    LET pair == HashMapGet(self.value_map, key)
    IN  IF pair # None THEN Some(pair[1][2]) ELSE None

get_alt(self, key) ==
    LET key_a == HashMapGet(self.key_map, key)
    IN  IF key_a # None
        THEN LET pair == HashMapGet(self.value_map, key_a[1])
             IN  IF pair # None THEN Some(pair[1][2]) ELSE None
        ELSE None

\* get_mut and get_mut_alt return Some(&mut pair.1): the reference is the
\* K1 slot of value_map whose value the caller may then overwrite.
get_mut(self, key) ==
    IF HashMapGet(self.value_map, key) # None THEN Some(key) ELSE None

get_mut_alt(self, key) ==
    LET key_a == HashMapGet(self.key_map, key)
    IN  IF key_a # None
        THEN IF HashMapGet(self.value_map, key_a[1]) # None THEN Some(key_a[1]) ELSE None
        ELSE None

\* A write of value through the reference slot returned by get_mut / get_mut_alt.
write_through(self, slot, value) ==
    [self EXCEPT !.value_map[slot] = <<self.value_map[slot][1], value>>]

\* remove as it would be without its key_map.remove(&pair.0).
remove_leaving_key_map(self, key) ==
    LET pair == HashMapGet(self.value_map, key)
    IN  IF pair # None
        THEN [self |-> [value_map |-> HashMapRemove(self.value_map, key),
                        key_map |-> self.key_map],
              result |-> Some(pair[1][2])]
        ELSE [self |-> self, result |-> None]

\* remove and remove_alt: the map afterwards and the returned Option<V>.
remove(self, key) ==
    LET pair == HashMapGet(self.value_map, key)
    IN  IF pair # None
        THEN [self |-> [value_map |-> HashMapRemove(self.value_map, key),
                        key_map |-> HashMapRemove(self.key_map, pair[1][1])],
              result |-> Some(pair[1][2])]
        ELSE [self |-> self, result |-> None]

contains_key(self, key) == HashMapContainsKey(self.value_map, key)

contains_key_alt(self, key) == HashMapContainsKey(self.key_map, key)

\* remove_alt as it would be if it looked k1 up first and removed the
\* key_map entry only together with the pair.
remove_alt_keeping_dangling(self, key) ==
    LET key_a == HashMapGet(self.key_map, key)
        pair == IF key_a # None THEN HashMapGet(self.value_map, key_a[1]) ELSE None
    IN  IF pair # None
        THEN [self |-> [value_map |-> HashMapRemove(self.value_map, key_a[1]),
                        key_map |-> HashMapRemove(self.key_map, key)],
              result |-> Some(pair[1][2])]
        ELSE [self |-> self, result |-> None]

remove_alt(self, key) ==
    LET key_a == HashMapGet(self.key_map, key)
    IN  IF key_a # None
        THEN LET pair == HashMapGet(self.value_map, key_a[1])
                 key_map_1 == HashMapRemove(self.key_map, key)
             IN  IF pair # None
                 THEN [self |-> [value_map |-> HashMapRemove(self.value_map, key_a[1]),
                                 key_map |-> key_map_1],
                       result |-> Some(pair[1][2])]
                 ELSE [self |-> [value_map |-> self.value_map, key_map |-> key_map_1],
                       result |-> None]
        ELSE [self |-> self, result |-> None]

\* eq as it would be if it compared the secondary tables too.
eq_comparing_key_map(self, other) ==
    self.value_map = other.value_map /\ self.key_map = other.key_map

eq(self, other) == self.value_map = other.value_map

\* From<HashMap<K1, (K2, V)>>: the for loop visits tuple_map in the hash map's
\* own order, which is any order of its keys.
Orders(S) ==
    {o \in [1 .. Cardinality(S) -> S] : \A i, j \in 1 .. Cardinality(S) : o[i] = o[j] => i = j}

RECURSIVE from_loop(_, _, _)
from_loop(m, tuple_map, order) ==
    IF order = <<>>
    THEN m
    ELSE LET k1 == Head(order)
         IN  from_loop(insert(m, k1, tuple_map[k1][1], tuple_map[k1][2]),
                       tuple_map, Tail(order))

from(tuple_map, order) ==
    from_loop(with_capacity(Cardinality(DOMAIN tuple_map)), tuple_map, order)

\* ---- calls, as steps ----
\* get, get_alt, contains_key, contains_key_alt and eq take &self: they cannot
\* change a map, and are evaluated on the states the steps below reach.
\* What is recorded of a call: its name, and whether it returned Some(_).
Call(op, result) == [op |-> op, is_some |-> result # None]

Init ==
    /\ map = new
    /\ other_map = new
    /\ last = Call("new", None)
    /\ inserts_only = TRUE
    /\ literal = <<>>

Insert(k1, k2, v) ==
    /\ map' = insert(map, k1, k2, v)
    /\ last' = Call("insert", None)
    /\ UNCHANGED <<other_map, inserts_only, literal>>

\* get_mut(k1), then the caller writes v through the reference it got, if any.
GetMut(k1, v) ==
    LET r == get_mut(map, k1)
    IN  /\ map' = IF r # None THEN write_through(map, r[1], v) ELSE map
        /\ last' = Call("get_mut", r)
        /\ inserts_only' = FALSE
        /\ UNCHANGED <<other_map, literal>>

GetMutAlt(k2, v) ==
    LET r == get_mut_alt(map, k2)
    IN  /\ map' = IF r # None THEN write_through(map, r[1], v) ELSE map
        /\ last' = Call("get_mut_alt", r)
        /\ inserts_only' = FALSE
        /\ UNCHANGED <<other_map, literal>>

Remove(k1) ==
    LET r == remove(map, k1)
    IN  /\ map' = r.self
        /\ last' = Call("remove", r.result)
        /\ inserts_only' = FALSE
        /\ UNCHANGED <<other_map, literal>>

RemoveAlt(k2) ==
    LET r == remove_alt(map, k2)
    IN  /\ map' = r.self
        /\ last' = Call("remove_alt", r.result)
        /\ inserts_only' = FALSE
        /\ UNCHANGED <<other_map, literal>>

Next ==
    \/ \E k1 \in K1, k2 \in K2, v \in V : Insert(k1, k2, v)
    \/ \E k1 \in K1, v \in V : GetMut(k1, v)
    \/ \E k2 \in K2, v \in V : GetMutAlt(k2, v)
    \/ \E k1 \in K1 : Remove(k1)
    \/ \E k2 \in K2 : RemoveAlt(k2)

\* Every call sequence on one map.
Spec == Init /\ [][Next]_vars

\* The same calls on the second map (what they return is not recorded).
OtherInsert(k1, k2, v) ==
    /\ other_map' = insert(other_map, k1, k2, v)
    /\ last' = Call("other.insert", None)
    /\ UNCHANGED <<map, inserts_only, literal>>

OtherGetMut(k1, v) ==
    LET r == get_mut(other_map, k1)
    IN  /\ other_map' = IF r # None THEN write_through(other_map, r[1], v) ELSE other_map
        /\ last' = Call("other.get_mut", None)
        /\ UNCHANGED <<map, inserts_only, literal>>

OtherGetMutAlt(k2, v) ==
    LET r == get_mut_alt(other_map, k2)
    IN  /\ other_map' = IF r # None THEN write_through(other_map, r[1], v) ELSE other_map
        /\ last' = Call("other.get_mut_alt", None)
        /\ UNCHANGED <<map, inserts_only, literal>>

OtherRemove(k1) ==
    LET r == remove(other_map, k1)
    IN  /\ other_map' = r.self
        /\ last' = Call("other.remove", None)
        /\ UNCHANGED <<map, inserts_only, literal>>

OtherRemoveAlt(k2) ==
    LET r == remove_alt(other_map, k2)
    IN  /\ other_map' = r.self
        /\ last' = Call("other.remove_alt", None)
        /\ UNCHANGED <<map, inserts_only, literal>>

\* other_map = MultiMap::from(tuple_map), tuple_map being the flat table of map
\* (what serde writes for it: value_map flattened, key_map skipped).
FromHashMap(order) ==
    /\ other_map' = from(map.value_map, order)
    /\ last' = Call("from", None)
    /\ UNCHANGED <<map, inserts_only, literal>>

NextPair ==
    \/ Next
    \/ \E k1 \in K1, k2 \in K2, v \in V : OtherInsert(k1, k2, v)
    \/ \E k1 \in K1, v \in V : OtherGetMut(k1, v)
    \/ \E k2 \in K2, v \in V : OtherGetMutAlt(k2, v)
    \/ \E k1 \in K1 : OtherRemove(k1)
    \/ \E k2 \in K2 : OtherRemoveAlt(k2)
    \/ \E order \in Orders(DOMAIN map.value_map) : FromHashMap(order)

\* Every call sequence on each of two maps, and From.
SpecPair == Init /\ [][NextPair]_vars

\* ---- the caller's discipline ----
\* insert called only with a k1 the primary table lacks and a k2 the secondary
\* table lacks.
InsertFresh(k1, k2, v) ==
    /\ ~contains_key(map, k1)
    /\ ~contains_key_alt(map, k2)
    /\ Insert(k1, k2, v)

NextDiscipline ==
    \/ \E k1 \in K1, k2 \in K2, v \in V : InsertFresh(k1, k2, v)
    \/ \E k1 \in K1, v \in V : GetMut(k1, v)
    \/ \E k2 \in K2, v \in V : GetMutAlt(k2, v)
    \/ \E k1 \in K1 : Remove(k1)
    \/ \E k2 \in K2 : RemoveAlt(k2)

\* Every call sequence on one map in which every insert brings two fresh keys.
SpecDiscipline == Init /\ [][NextDiscipline]_vars

\* ---- multimap! ----
\* multimap!(@count ...): the length of an array holding one () for each triple.
count(triples) == Len(triples)

RECURSIVE multimap_inserts_reversed(_, _)
\* The inserts of the literal made last triple first.
multimap_inserts_reversed(_map, triples) ==
    IF triples = <<>>
    THEN _map
    ELSE insert(multimap_inserts_reversed(_map, Tail(triples)),
                Head(triples)[1], Head(triples)[2], Head(triples)[3])

RECURSIVE multimap_inserts(_, _)
\* $( _map.insert($key1, $key2, $value); )* : one insert for each triple, in order.
multimap_inserts(_map, triples) ==
    IF triples = <<>>
    THEN _map
    ELSE multimap_inserts(insert(_map, Head(triples)[1], Head(triples)[2], Head(triples)[3]),
                          Tail(triples))

\* multimap!{ k1, k2 => v, ... } without a trailing comma.
multimap(triples) ==
    LET _cap == count(triples)
        _map == with_capacity(_cap)
    IN  multimap_inserts(_map, triples)

\* multimap!{ k1, k2 => v, ..., } with a trailing comma: at least one triple,
\* and the rule expands to the literal without the comma.
multimap_trailing_comma(triples) == multimap(triples)

\* One more triple is written in the literal, and the same insert is made by
\* hand on map, which started as new().
MacroInsert(k1, k2, v) ==
    /\ Len(literal) < MaxLiteral
    /\ literal' = Append(literal, <<k1, k2, v>>)
    /\ map' = insert(map, k1, k2, v)
    /\ last' = Call("insert", None)
    /\ UNCHANGED <<other_map, inserts_only>>

NextMacro == \E k1 \in K1, k2 \in K2, v \in V : MacroInsert(k1, k2, v)

\* Every literal of up to MaxLiteral triples, beside the inserts made by hand.
SpecMacro == Init /\ [][NextMacro]_vars

\* ---- the claims ----

\* C1: in every reachable state the primary table and the secondary table
\* describe the same set of (k1, k2) pairs: every primary entry k1 -> (k2, v)
\* has the secondary entry k2 -> k1, and every secondary entry k2 -> k1 has a
\* primary entry k1 -> (k2, _).
C1_TablesAreInverses ==
    /\ \A k1 \in DOMAIN map.value_map :
          LET k2 == map.value_map[k1][1]
          IN  k2 \in DOMAIN map.key_map /\ map.key_map[k2] = k1
    /\ \A k2 \in DOMAIN map.key_map :
          LET k1 == map.key_map[k2]
          IN  k1 \in DOMAIN map.value_map /\ map.value_map[k1][1] = k2

\* C2: in every reachable state no two distinct k1 entries of the primary
\* table store the same k2.
C2_SecondaryKeysUnique ==
    \A k1 \in DOMAIN map.value_map : \A k1b \in DOMAIN map.value_map :
        k1 # k1b => map.value_map[k1][1] # map.value_map[k1b][1]

\* C3: after any sequence of insert calls, for every element k1 -> (k2, v)
\* stored in the primary table, get(k1) and get_alt(k2) both return Some(v).
C3_InsertsThenBothLookupsAgree ==
    inserts_only =>
        \A k1 \in DOMAIN map.value_map :
            LET k2 == map.value_map[k1][1]
                v == map.value_map[k1][2]
            IN  get(map, k1) = Some(v) /\ get_alt(map, k2) = Some(v)

\* C4: in every reachable state, for every stored element k1 -> (k2, v),
\* remove(k1) returns Some(v), and in the map it leaves get(k1) and get_alt(k2)
\* are None and contains_key(k1) and contains_key_alt(k2) are false.
C4_RemoveReturnsValueAndForgetsBothKeys ==
    \A k1 \in DOMAIN map.value_map :
        LET k2 == map.value_map[k1][1]
            v == map.value_map[k1][2]
            r == remove(map, k1)
        IN  /\ r.result = Some(v)
            /\ get(r.self, k1) = None
            /\ get_alt(r.self, k2) = None
            /\ ~contains_key(r.self, k1)
            /\ ~contains_key_alt(r.self, k2)

\* C4's case: a remove(k1) step that found k1 stored has just returned its value.
C4_Witness == last.op = "remove" /\ last.is_some

\* C5: in every reachable state, for every stored element k1 -> (k2, v),
\* remove_alt(k2) returns Some(v), and in the map it leaves get(k1) and
\* get_alt(k2) are None and contains_key(k1) and contains_key_alt(k2) are false.
C5_RemoveAltReturnsValueAndForgetsBothKeys ==
    \A k1 \in DOMAIN map.value_map :
        LET k2 == map.value_map[k1][1]
            v == map.value_map[k1][2]
            r == remove_alt(map, k2)
        IN  /\ r.result = Some(v)
            /\ get(r.self, k1) = None
            /\ get_alt(r.self, k2) = None
            /\ ~contains_key(r.self, k1)
            /\ ~contains_key_alt(r.self, k2)

\* C6: a stored element k1 -> (k2, v) is still stored under k1 with the same k2
\* after every step, unless the step is remove(k1), remove_alt(k2) with the
\* element's own k2, or an insert with the same k1.
C6_ElementStaysUntilRemovedOrReplaced ==
    [][\A k1 \in DOMAIN map.value_map :
          LET k2 == map.value_map[k1][1]
          IN  \/ k1 \in DOMAIN map'.value_map /\ map'.value_map[k1][1] = k2
              \/ Remove(k1)
              \/ RemoveAlt(k2)
              \/ \E key_two \in K2, value \in V : Insert(k1, key_two, value)]_vars

\* C7: in every reachable state, for a k1 absent from the primary table get is
\* None, contains_key is false and remove returns None and changes neither
\* table; for a k2 that is the k2 of no stored element get_alt is None,
\* contains_key_alt is false and remove_alt returns None and changes neither table.
C7_AbsentKeysFindNothingAndChangeNothing ==
    /\ \A k1 \in K1 \ DOMAIN map.value_map :
          /\ get(map, k1) = None
          /\ ~contains_key(map, k1)
          /\ remove(map, k1) = [self |-> map, result |-> None]
    /\ \A k2 \in K2 \ {map.value_map[k1][1] : k1 \in DOMAIN map.value_map} :
          /\ get_alt(map, k2) = None
          /\ ~contains_key_alt(map, k2)
          /\ remove_alt(map, k2) = [self |-> map, result |-> None]

\* C8: in every reachable state, for every k2, contains_key_alt(k2) is true
\* exactly when get_alt(k2) returns a value.
C8_ContainsKeyAltIffGetAltFinds ==
    \A k2 \in K2 : contains_key_alt(map, k2) <=> (get_alt(map, k2) # None)

\* C9: for any two maps reached by any two call sequences, if they compare
\* equal (their primary tables are equal) then their secondary tables are equal,
\* and get_alt, contains_key_alt and remove_alt give the same result on both
\* for every k2.
C9_EqualMapsHaveEqualSecondaryTables ==
    eq(map, other_map) =>
        /\ map.key_map = other_map.key_map
        /\ \A k2 \in K2 :
              /\ get_alt(map, k2) = get_alt(other_map, k2)
              /\ contains_key_alt(map, k2) = contains_key_alt(other_map, k2)
              /\ remove_alt(map, k2).result = remove_alt(other_map, k2).result

\* C10: the map built by From from the flat table of a reachable map m
\* compares equal to m, has a secondary table that is exactly the inverse of its
\* primary table, and get_alt(k2) on it returns what m.get_alt(k2) returns for
\* every k2 for which m.get_alt(k2) returns a value.
C10_FromFlatTableRebuildsTheMap ==
    last.op = "from" =>
        /\ eq(other_map, map)
        /\ \A k1 \in DOMAIN other_map.value_map :
              LET k2 == other_map.value_map[k1][1]
              IN  k2 \in DOMAIN other_map.key_map /\ other_map.key_map[k2] = k1
        /\ \A k2 \in DOMAIN other_map.key_map :
              LET k1 == other_map.key_map[k2]
              IN  k1 \in DOMAIN other_map.value_map /\ other_map.value_map[k1][1] = k2
        /\ \A k2 \in K2 :
              get_alt(map, k2) # None => get_alt(other_map, k2) = get_alt(map, k2)

\* The set of (k1, (k2, v)) entries a primary table holds.
PrimaryEntries(self) == {<<k1, self.value_map[k1]>> : k1 \in DOMAIN self.value_map}

\* The maps one insert, remove or remove_alt away from self.
OneCallAway(self) ==
    {insert(self, k1, k2, v) : k1 \in K1, k2 \in K2, v \in V}
        \cup {remove(self, k1).self : k1 \in K1}
        \cup {remove_alt(self, k2).self : k2 \in K2}

\* C11: in every reachable state the map rebuilt from the flat table, in any
\* order, compares equal to the map, either way round, although its secondary
\* table can differ; and the map compares equal to a map one call away, either
\* way round, exactly when the two hold the same set of (k1, (k2, v)) entries.
C11_EqualIffSamePrimaryEntries ==
    LET entries == PrimaryEntries(map)
    IN  /\ \A order \in Orders(DOMAIN map.value_map) :
              LET x == from(map.value_map, order)
              IN  eq(x, map) /\ eq(map, x) /\ PrimaryEntries(x) = entries
        /\ \A x \in OneCallAway(map) :
              LET same == (PrimaryEntries(x) = entries)
              IN  (eq(map, x) <=> same) /\ (eq(x, map) <=> same)

\* C11's case: two insertion orders of the same triples leave different
\* secondary tables, and a reachable map differs from its rebuilt map in the
\* secondary table only.
C11_Witness ==
    /\ \E o1 \in Orders(DOMAIN map.value_map) : \E o2 \in Orders(DOMAIN map.value_map) :
          from(map.value_map, o1).key_map # from(map.value_map, o2).key_map
    /\ \E o \in Orders(DOMAIN map.value_map) : from(map.value_map, o).key_map # map.key_map

\* What C12 says of a write of value through the reference to the element
\* stored under slot, which leaves the map after: only that element's v
\* changed, and get(k1) and get_alt(k2) of that element return the new value.
OnlyValueOfElementChanged(self, slot, value, after) ==
    LET k2 == self.value_map[slot][1]
    IN  /\ DOMAIN after.value_map = DOMAIN self.value_map
        /\ after.value_map[slot][1] = k2
        /\ \A k1 \in DOMAIN self.value_map \ {slot} : after.value_map[k1] = self.value_map[k1]
        /\ after.key_map = self.key_map
        /\ get(after, slot) = Some(value)
        /\ get_alt(after, k2) = Some(value)

\* C12: in every reachable state, a get_mut(k1) or get_mut_alt(k2) that
\* returns a reference, followed by a write of a value through it, changes only
\* the v of the element addressed: its k1 and k2, every other element and the
\* secondary table are unchanged, and get(k1) and get_alt(k2) of that element
\* then return the new value.
C12_GetMutChangesOnlyTheValue ==
    /\ \A k1 \in K1, value \in V :
          LET r == get_mut(map, k1)
          IN  r # None =>
                  OnlyValueOfElementChanged(map, r[1], value, write_through(map, r[1], value))
    /\ \A k2 \in K2, value \in V :
          LET r == get_mut_alt(map, k2)
          IN  r # None =>
                  OnlyValueOfElementChanged(map, r[1], value, write_through(map, r[1], value))

\* A full pass of iter / into_iter: the entries of the primary table, in the
\* order the table's own iterator hands them out (any order).
iter(self, order) == [i \in 1 .. Len(order) |-> <<order[i], self.value_map[order[i]]>>]

\* The passes the map can produce, one for each order of the primary table.
Passes(self) == {iter(self, order) : order \in Orders(DOMAIN self.value_map)}

\* The set of triples a pass yields.
Yielded(pass) == {pass[i] : i \in DOMAIN pass}

\* The triples yielded by some pass over the map.
YieldedBy(self) == UNION {Yielded(pass) : pass \in Passes(self)}

\* C13: in every reachable state every pass yields no triple twice and all
\* passes yield the same set, and that set follows the calls: after
\* insert(k1, k2, v) it is the set before with (k1, (k2, v)) in place of any
\* triple under k1, after remove(k1) it is the set before without the triple
\* under k1, and after remove_alt(k2) it is the set before without the triples
\* whose k2 is the key removed. Starting from the empty map this makes the set
\* yielded the set of triples inserted and not since replaced or removed.
C13_IterationYieldsInsertedMinusRemoved ==
    /\ \A pass \in Passes(map) :
          /\ \A i, j \in DOMAIN pass : pass[i] = pass[j] => i = j
          /\ Yielded(pass) = YieldedBy(map)
    /\ \A k1 \in K1, k2 \in K2, v \in V :
          YieldedBy(insert(map, k1, k2, v))
              = {t \in YieldedBy(map) : t[1] # k1} \cup {<<k1, <<k2, v>>>>}
    /\ \A k1 \in K1 :
          YieldedBy(remove(map, k1).self) = {t \in YieldedBy(map) : t[1] # k1}
    /\ \A k2 \in K2 :
          YieldedBy(remove_alt(map, k2).self) = {t \in YieldedBy(map) : t[2][1] # k2}

\* The two tables of a map are exact inverses of each other.
ExactInverses(self) ==
    /\ \A k1 \in DOMAIN self.value_map :
          LET k2 == self.value_map[k1][1]
          IN  k2 \in DOMAIN self.key_map /\ self.key_map[k2] = k1
    /\ \A k2 \in DOMAIN self.key_map :
          LET k1 == self.key_map[k2]
          IN  k1 \in DOMAIN self.value_map /\ self.value_map[k1][1] = k2

\* The secondary keys stored by the elements other than the one under k1.
K2OfOthers(self, k1) == {self.value_map[k][1] : k \in DOMAIN self.value_map \ {k1}}


\* remove(k1); insert(k1, k2new, v) with the v that remove returned.
Rebind(self, k1, k2new) ==
    LET r == remove(self, k1)
    IN  insert(r.self, k1, k2new, r.result[1])

\* What C14 promises of the map after rebinding the element (k1, k2old, v) to k2new.
Rebound(after, k1, k2old, k2new, v) ==
    /\ ExactInverses(after)
    /\ get(after, k1) = Some(v)
    /\ get_alt(after, k2new) = Some(v)
    /\ get_alt(after, k2old) = None
    /\ ~contains_key_alt(after, k2old)

\* C14, as amended: in every reachable state where the tables are exact
\* inverses, for every element (k1, k2old, v) and every k2new that no other
\* element uses and that differs from k2old, remove(k1); insert(k1, k2new, v)
\* yields a map whose tables are exact inverses, where get(k1) and
\* get_alt(k2new) return v and get_alt(k2old) and contains_key_alt(k2old)
\* report absence.
C14_RebindToAnotherKey ==
    ExactInverses(map) =>
        \A k1 \in DOMAIN map.value_map :
            LET k2old == map.value_map[k1][1]
                v == map.value_map[k1][2]
            IN  \A k2new \in (K2 \ K2OfOthers(map, k1)) \ {k2old} :
                    Rebound(Rebind(map, k1, k2new), k1, k2old, k2new, v)

\* C14's case: the tables are exact inverses, an element is stored and a k2
\* other than its own is used by no other element.
C14_Witness ==
    /\ ExactInverses(map)
    /\ \E k1 \in DOMAIN map.value_map :
          (K2 \ K2OfOthers(map, k1)) \ {map.value_map[k1][1]} # {}
    /\ last.op \in {"insert", "remove"}

\* C14, as stated: the same for every k2new that no other element uses, the
\* element's own k2old included.
C14_RebindToAnyFreeKey ==
    ExactInverses(map) =>
        \A k1 \in DOMAIN map.value_map :
            LET k2old == map.value_map[k1][1]
                v == map.value_map[k1][2]
            IN  \A k2new \in K2 \ K2OfOthers(map, k1) :
                    Rebound(Rebind(map, k1, k2new), k1, k2old, k2new, v)


\* C15: for every literal t1..tn, n >= 0, the map multimap! produces compares
\* equal, either way round, to the map made by new() followed by insert(t1),
\* ..., insert(tn) in the same order, and to the one started by
\* with_capacity(n); with a trailing comma (n >= 1) likewise; for n = 0 the map
\* produced compares equal to new().
C15_LiteralEqualsInsertsInOrder ==
    /\ eq(multimap(literal), map) /\ eq(map, multimap(literal))
    /\ eq(multimap(literal), multimap_inserts(with_capacity(Len(literal)), literal))
    /\ literal # <<>> =>
          eq(multimap_trailing_comma(literal), map) /\ eq(map, multimap_trailing_comma(literal))
    /\ literal = <<>> => eq(multimap(literal), new)

\* C15's case: a literal of MaxLiteral triples where a later triple repeats the
\* k1 of an earlier one with another value, so that the order of the inserts shows.
C15_Witness ==
    /\ Len(literal) = MaxLiteral
    /\ \E i, j \in DOMAIN literal : i < j /\ literal[i][1] = literal[j][1] /\ literal[i][3] # literal[j][3]
    /\ eq(multimap(literal), map)


C17_RemoveTouchesOnlyItsElement ==
    \A k1 \in K1 :
        LET after == remove(map, k1).self
        IN  \A k1b \in DOMAIN map.value_map \ {k1} :
                LET k2b == map.value_map[k1b][1]
                IN  /\ HashMapGet(after.value_map, k1b) = HashMapGet(map.value_map, k1b)
                    /\ get(after, k1b) = get(map, k1b)
                    /\ get_alt(after, k2b) = get_alt(map, k2b)


\* The secondary keys whose entry k2 -> k1 names a k1 the primary table lacks.
Dangling(self) == {k2 \in DOMAIN self.key_map : self.key_map[k2] \notin DOMAIN self.value_map}

\* C18: in every reachable state, for every k2 whose secondary entry names a
\* k1 absent from the primary table, get_alt(k2) and get_mut_alt(k2) return
\* None, so that nothing is read or written and both tables stay as they are,
\* and remove_alt(k2) returns None, deletes the entry of k2 from the secondary
\* table and leaves its other entries and the primary table unchanged.
C18_DanglingSecondaryKeyIsHandled ==
    \A k2 \in Dangling(map) :
        LET r == remove_alt(map, k2)
        IN  /\ get_alt(map, k2) = None
            /\ get_mut_alt(map, k2) = None
            /\ r.result = None
            /\ r.self.value_map = map.value_map
            /\ r.self.key_map = HashMapRemove(map.key_map, k2)
            /\ ~contains_key_alt(r.self, k2)

\* C18's case: the secondary table holds a k2 -> k1 whose k1 the primary table lacks.
C18_Witness == Dangling(map) # {} /\ last.op \in {"remove", "remove_alt"}


\* C19: in every state reachable when every insert brings a k1 absent from the
\* primary table and a k2 absent from the secondary table, the two tables are
\* exact inverses, they have the same size, no two elements store the same k2,
\* and for every element k1 -> (k2, v) get_alt(k2) returns v, while get_alt
\* returns None for a k2 no element stores.
C19_DisciplineKeepsTablesInverse ==
    /\ ExactInverses(map)
    /\ Cardinality(DOMAIN map.value_map) = Cardinality(DOMAIN map.key_map)
    /\ \A k1 \in DOMAIN map.value_map : \A k1b \in DOMAIN map.value_map :
          k1 # k1b => map.value_map[k1][1] # map.value_map[k1b][1]
    /\ \A k1 \in DOMAIN map.value_map :
          get_alt(map, map.value_map[k1][1]) = Some(map.value_map[k1][2])
    /\ \A k2 \in K2 \ {map.value_map[k1][1] : k1 \in DOMAIN map.value_map} :
          get_alt(map, k2) = None

\* C19's case: after a removal and a later insert the map holds an element
\* under each k1, so fresh keys were taken, given back and taken again.
C19_Witness ==
    /\ ~inserts_only
    /\ last.op = "insert"
    /\ DOMAIN map.value_map = K1

=============================================================================
